---- MODULE Spec2Model ----
(***************************************************************************)
(* Model of index.py, the Streamlit PDF stamping tool: the session's stamp *)
(* list and its editor, the raster preview and vector overlay builders,    *)
(* and the apply pipeline with optional encryption.                        *)
(*                                                                         *)
(* Streamlit re-executes the whole script on every user interaction; each  *)
(* editor action below is one such script run, triggered by one widget.    *)
(***************************************************************************)
EXTENDS Integers, Sequences, FiniteSets, TLC

\* ------------------------------------------------------------------ bounds
MaxStamps == 2
MaxPages == 3

\* ------------------------------------------------------------- data model
None == "None"

\* None where the code holds an index (selected_stamp_index, delete_pending).
NoIndex == -1

\* No file in the PDF uploader and ss.pdf_bytes = None: a document is the
\* non-empty sequence of its pages' sizes.
NoPdf == <<>>


\* An uploaded image file, and what compress_image turns it into (the JPEG
\* re-encoding; the bytes differ from the upload).
UploadedImages == {"raw"}

compress_image(img_bytes) == IF img_bytes = "raw" THEN "jpeg" ELSE img_bytes

\* Values of the X (mm) number input.
XValues == {50, 60}

\* class Stamp: the fields the editor, the compositors and apply branch on.
\* x_mm stands for the geometry and style fields, which the editor copies
\* from its form field by field in the same way.
Stamp(ty, x, pf, pt, img, tl) ==
  [stamp_type |-> ty, x_mm |-> x, page_from |-> pf, page_to |-> pt,
   image_bytes |-> img, tiled |-> tl]

VARIABLES
  stamps,                 \* ss.stamps: list of references to Stamp objects
  heap,                   \* the Stamp objects, by reference
  selected_stamp_index,   \* ss.selected_stamp_index (0-based or NoIndex)
  delete_pending,         \* ss.delete_pending (0-based or NoIndex)
  pdf_file,               \* the sidebar uploader's file: a document or NoPdf
  pdf_bytes,              \* ss.pdf_bytes: the last document read, or NoPdf
  last_action,            \* history: the handler that ran in the last run
  \* the security expander
  sec_enabled,            \* ss.sec_enabled
  sec_user_pw,            \* ss.sec_user_pw
  sec_owner_pw,           \* ss.sec_owner_pw
  restrictions,           \* the ss.sec_disable_* checkboxes that are ticked
  \* one script run with "Apply Stamp(s) to PDF" pressed
  pc,                     \* where the run is
  page_size,              \* the module-level (page_w_pt, page_h_pt)
  i,                      \* the page loop's index
  reader,                 \* PdfReader(ss.pdf_bytes), NoPdf before it is opened
  builds,                 \* calls of build_overlay_pdf_for_page that returned
  writer,                 \* the pages added to the PdfWriter, with their merges
  encrypted,              \* the writer.encrypt call, if any
  out_file,               \* the pages written to the temporary file
  download,               \* the download button's file name, or None
  overlay_reader,         \* the last result of build_overlay_pdf_for_page
  \* one call of the raster compositor
  preview_page_index,     \* ss.preview_page_index: the page being previewed
  preview,                \* the result of draw_preview_overlay_for_page
  slider,                 \* the last call of st.slider("Preview page", ...)
  \* template save and load
  tpl,                    \* the template dict, as saved or as parsed from JSON
  loaded,                 \* the result of template_dict_to_stamps
  \* the tiled grid of one text stamp on one page
  tile_args,              \* the stamp's origin and spacing, the page, the scale
  raster_grid,            \* the placements of the raster compositor (pixels)
  vector_grid,            \* the placements of the vector compositor (points)
  \* the text of one boxed stamp in the vector compositor
  box_args,               \* the box height, padding, font size and line count
  box_lines               \* the baselines of the lines drawn with drawString

editorVars == <<stamps, heap, selected_stamp_index, delete_pending, pdf_file,
                pdf_bytes, last_action>>

securityVars == <<sec_enabled, sec_user_pw, sec_owner_pw, restrictions>>

runVars == <<pc, page_size, i, reader, builds, writer, encrypted, out_file,
             download>>

previewVars == <<preview_page_index, preview, slider>>

templateVars == <<tpl, loaded>>

tileVars == <<tile_args, raster_grid, vector_grid>>

layoutVars == <<box_args, box_lines>>

vars == <<editorVars, securityVars, runVars, overlay_reader, previewVars,
          templateVars, tileVars, layoutVars>>

\* The editor's runs leave the security inputs alone and press no Apply.
EditorFrame ==
  UNCHANGED <<securityVars, runVars, overlay_reader, previewVars, templateVars,
              tileVars, layoutVars>>

\* ---------------------------------------------------------------- helpers
Range(f) == {f[k] : k \in DOMAIN f}

SeqsUpTo(S, n) == UNION {[1..k -> S] : k \in 0..n}

Max(a, b) == IF a >= b THEN a ELSE b

Min(a, b) == IF a <= b THEN a ELSE b

\* Python list operations (0-based positions).
ListInsert(s, pos, e) ==
  [k \in 1..(Len(s) + 1) |->
     IF k <= pos THEN s[k] ELSE IF k = pos + 1 THEN e ELSE s[k - 1]]

ListPop(s, pos) ==
  [k \in 1..(Len(s) - 1) |-> IF k <= pos THEN s[k] ELSE s[k + 1]]

\* A swap that leaves the list as it was.
ListSwapNone(s, a, b) == s

ListSwap(s, a, b) ==
  [k \in 1..Len(s) |->
     IF k = a + 1 THEN s[b + 1] ELSE IF k = b + 1 THEN s[a + 1] ELSE s[k]]

\* The references of a list in order of first occurrence.
RECURSIVE FirstRefs(_)
FirstRefs(s) ==
  IF s = <<>> THEN <<>>
  ELSE LET h == FirstRefs(SubSeq(s, 1, Len(s) - 1))
           e == s[Len(s)]
       IN IF e \in Range(h) THEN h ELSE Append(h, e)

IndexOf(s, e) == CHOOSE k \in 1..Len(s) : s[k] = e

\* Object references are renumbered in order of first occurrence in the list
\* and unreachable objects are dropped (garbage collection): the state names
\* objects only up to identity.
CanonStamps(st) == [k \in 1..Len(st) |-> IndexOf(FirstRefs(st), st[k])]

CanonHeap(st, hp) == [k \in 1..Len(FirstRefs(st)) |-> hp[FirstRefs(st)[k]]]

\* The Stamp object at 0-based list position idx.
StampAt(idx) == heap[stamps[idx + 1]]

\* The list as the compositors read it: the objects in list order.
StampList == [k \in 1..Len(stamps) |-> heap[stamps[k]]]

\* ------------------------------------------------------------ documents
A4 == <<595, 842>>

A5 == <<420, 595>>

\* A document is the sequence of its pages' point sizes.
UniformDoc(n) == [k \in 1..n |-> A4]

\* The documents uploaded in the editor session.
EditorDocs == {UniformDoc(1), UniformDoc(2)}

\* The documents uploaded while the preview is navigated: one page, a few,
\* as many as the preview shows, and more.
PreviewDocs == {UniformDoc(1), UniformDoc(2), UniformDoc(3), UniformDoc(10),
                UniformDoc(12)}

\* len(probe.pages), 0 when no file is in the uploader.
num_pages == Len(pdf_file)

\* ------------------------------------------------------- template helpers
\* Stamp entries a template file may carry: the JSON is user input, so its
\* page range need not fit the loaded document and an image entry may carry
\* no image data ("image_bytes": null).
TemplateImage == Stamp("image", 50, 1, 1, None, FALSE)

TemplateText == Stamp("text", 50, 1, 3, None, TRUE)

Templates == {<<>>, <<TemplateImage>>, <<TemplateText, TemplateImage>>}

\* Byte strings by length: empty, 15 bytes, 16 bytes, and the long ones.
ByteStrings == {"", "b15", "b16", "jpeg", "raw", "corrupt"}

ByteLen(b) ==
  CASE b = "" -> 0
    [] b = "b15" -> 15
    [] b = "b16" -> 16
    [] OTHER -> 3000

\* base64.b64encode(b).decode("utf-8"): a str, 4 characters per 3 bytes.
b64encode(b) ==
  CASE b = "" -> "b64()"
    [] b = "b15" -> "b64(b15)"
    [] b = "b16" -> "b64(b16)"
    [] b = "jpeg" -> "b64(jpeg)"
    [] b = "raw" -> "b64(raw)"
    [] b = "corrupt" -> "b64(corrupt)"

Base64Strings == {b64encode(b) : b \in ByteStrings}

\* decode_b64_lazy: base64.b64decode.
decode_b64_lazy(b64_str) == CHOOSE b \in ByteStrings : b64encode(b) = b64_str

\* isinstance(v, str) and len(v) for the values an image_bytes entry takes.
IsStr(v) == v \in Base64Strings

StrLen(v) == 4 * ((ByteLen(decode_b64_lazy(v)) + 2) \div 3)

\* Before "Save Template".
NoTemplate == [saved |-> FALSE, raised |-> FALSE, stamps |-> <<>>]

\* stamps_to_template_dict: per stamp a copy of its __dict__, the image bytes
\* replaced by their base64 text when they are truthy. The Stamp objects are
\* not written to.
stamps_to_template_dict(stamp_list) ==
  [saved |-> TRUE, raised |-> FALSE,
   stamps |-> [k \in 1..Len(stamp_list) |->
                 [stamp_list[k] EXCEPT
                    !.image_bytes = IF @ # None /\ @ # ""
                                    THEN b64encode(@) ELSE @]]]

\* json.loads(json.dumps(tpl)): None and str values come back equal; a bytes
\* value is not JSON serializable and json.dumps raises TypeError.
json_roundtrip(template) ==
  IF \E k \in 1..Len(template.stamps) :
       template.stamps[k].image_bytes \in ByteStrings
  THEN [template EXCEPT !.raised = TRUE]
  ELSE template

\* template_dict_to_stamps: one new Stamp object per entry, in file order;
\* image_bytes is decoded when it is a str longer than 20 characters and
\* taken as it is otherwise.
template_dict_to_stamps(data) == [k \in 1..Len(data) |-> Stamp(
    data[k].stamp_type, data[k].x_mm, data[k].page_from, data[k].page_to,
    IF IsStr(data[k].image_bytes) /\ StrLen(data[k].image_bytes) > 20
    THEN decode_b64_lazy(data[k].image_bytes) ELSE data[k].image_bytes,
    data[k].tiled)]

NotLoaded == [done |-> FALSE, stamps |-> <<>>]

\* ------------------------------------------------------ the stamp manager
\* The selectbox: its default is the stored selection, replaced by the last
\* index when that is None or past the end; every run with a non-empty list
\* stores the selectbox's value back.
SelectboxDefault(sel, n) ==
  IF n = 0 THEN sel ELSE IF sel = NoIndex \/ sel >= n THEN n - 1 ELSE sel

\* What a run leaves in the session: the list (with object references
\* renumbered), the objects, and the selection as the stamp manager stores it.
Finish(st, hp, sel) ==
  /\ stamps' = CanonStamps(st)
  /\ heap' = CanonHeap(st, hp)
  /\ selected_stamp_index' = SelectboxDefault(sel, Len(st))

\* Sidebar: a PDF is uploaded (or replaced).
UploadPdf ==
  /\ last_action' = "UploadPdf"
  /\ EditorFrame
  /\ \E doc \in EditorDocs : pdf_file' = doc /\ pdf_bytes' = doc
  /\ UNCHANGED <<stamps, heap, selected_stamp_index, delete_pending>>

\* page_to of a newly added stamp: max(1, num_pages) if num_pages else 1.
NewPageTo == IF num_pages # 0 THEN Max(1, num_pages) ELSE 1

\* Sidebar: "Add Digital Signature Stamp".
AddSignature ==
  /\ last_action' = "AddSignature"
  /\ EditorFrame
  /\ Len(stamps) < MaxStamps
  /\ \E x \in XValues :
       LET hp == Append(heap, Stamp("text", x, 1, NewPageTo, None, FALSE))
           st == Append(stamps, Len(hp))
       IN Finish(st, hp, Len(st) - 1)
  /\ UNCHANGED <<delete_pending, pdf_file, pdf_bytes>>

\* Sidebar: "Add stamp". An image stamp needs an uploaded image, else only a
\* warning is shown.
AddStamp ==
  /\ last_action' = "AddStamp"
  /\ EditorFrame
  /\ Len(stamps) < MaxStamps
  /\ \E new_type \in {"image", "text"}, nx \in XValues :
     \E up \in IF new_type = "image" THEN UploadedImages \cup {None}
                ELSE {None},
        n_tiled \in IF new_type = "text" THEN BOOLEAN ELSE {FALSE} :
       LET n_img == IF up # None THEN compress_image(up) ELSE None
       IN
       /\ IF new_type = "image" /\ n_img = None
          THEN UNCHANGED <<stamps, heap, selected_stamp_index>>
          ELSE LET hp == Append(heap, Stamp(new_type, nx, 1, NewPageTo, n_img,
                                            IF new_type = "text" THEN n_tiled
                                            ELSE FALSE))
                   st == Append(stamps, Len(hp))
               IN Finish(st, hp, Len(st) - 1)
  /\ UNCHANGED <<delete_pending, pdf_file, pdf_bytes>>

\* Sidebar: "Apply Template" replaces the list by the template's stamps.
ApplyTemplate ==
  /\ last_action' = "ApplyTemplate"
  /\ EditorFrame
  /\ \E template_pending \in Templates :
       LET hp == template_dict_to_stamps(template_pending)
           st == [k \in 1..Len(hp) |-> k]
       IN Finish(st, hp, selected_stamp_index)
  /\ UNCHANGED <<delete_pending, pdf_file, pdf_bytes>>

\* The selectbox: the user picks another stamp.
Select ==
  /\ last_action' = "Select"
  /\ EditorFrame
  /\ \E j \in 0..(Len(stamps) - 1) : selected_stamp_index' = j
  /\ UNCHANGED <<stamps, heap, delete_pending, pdf_file, pdf_bytes>>

MoveUp ==
  /\ last_action' = "MoveUp"
  /\ EditorFrame
  /\ stamps # <<>>
  /\ selected_stamp_index # 0
  /\ LET selected == selected_stamp_index
     IN Finish(ListSwap(stamps, selected - 1, selected), heap, selected - 1)
  /\ UNCHANGED <<delete_pending, pdf_file, pdf_bytes>>

MoveDown ==
  /\ last_action' = "MoveDown"
  /\ EditorFrame
  /\ stamps # <<>>
  /\ selected_stamp_index < Len(stamps) - 1
  /\ LET selected == selected_stamp_index
     IN Finish(ListSwap(stamps, selected + 1, selected), heap, selected + 1)
  /\ UNCHANGED <<delete_pending, pdf_file, pdf_bytes>>

\* copy.deepcopy(stamps[selected]): a new object with the same field values.
DeepCopy(hp, ref) == Append(hp, hp[ref])

\* A slip that inserts the selected object itself (clone = stamps[selected]).
DuplicateCloneShared(hp, ref) == [heap |-> hp, ref |-> ref]

\* What "Duplicate" inserts: the copy's heap and reference.
DuplicateClone(hp, ref) ==
  [heap |-> DeepCopy(hp, ref), ref |-> Len(hp) + 1]

Duplicate ==
  /\ last_action' = "Duplicate"
  /\ EditorFrame
  /\ stamps # <<>>
  /\ Len(stamps) < MaxStamps
  /\ LET selected == selected_stamp_index
         c == DuplicateClone(heap, stamps[selected + 1])
     IN Finish(ListInsert(stamps, selected + 1, c.ref), c.heap, selected + 1)
  /\ UNCHANGED <<delete_pending, pdf_file, pdf_bytes>>

DeleteRequest ==
  /\ last_action' = "DeleteRequest"
  /\ EditorFrame
  /\ stamps # <<>>
  /\ delete_pending' = selected_stamp_index
  /\ UNCHANGED <<stamps, heap, selected_stamp_index, pdf_file, pdf_bytes>>

\* "Yes, Delete": stamps.pop(delete_pending). An index past the end raises
\* IndexError and the run ends there, leaving the session as it was.
ConfirmDelete ==
  /\ last_action' = "ConfirmDelete"
  /\ EditorFrame
  /\ stamps # <<>>
  /\ delete_pending # NoIndex
  /\ LET idx_to_del == delete_pending
     IN IF idx_to_del >= Len(stamps)
        THEN UNCHANGED <<stamps, heap, selected_stamp_index, delete_pending>>
        ELSE LET st == ListPop(stamps, idx_to_del)
             IN /\ Finish(st, heap,
                          IF Len(st) = 0 THEN NoIndex ELSE Max(0, idx_to_del - 1))
                /\ delete_pending' = NoIndex
  /\ UNCHANGED <<pdf_file, pdf_bytes>>

CancelDelete ==
  /\ last_action' = "CancelDelete"
  /\ EditorFrame
  /\ stamps # <<>>
  /\ delete_pending # NoIndex
  /\ delete_pending' = NoIndex
  /\ UNCHANGED <<stamps, heap, selected_stamp_index, pdf_file, pdf_bytes>>

\* The editor form of the selected stamp, submitted with "Update Preview".
\* Both page inputs range over 1..npages independently of each other.
EditSubmit ==
  /\ last_action' = "EditSubmit"
  /\ EditorFrame
  /\ stamps # <<>>
  /\ LET sidx == selected_stamp_index
         ref == stamps[sidx + 1]
         editing == heap[ref]
         npages == IF num_pages > 0 THEN num_pages ELSE 1
     IN \E page_from \in 1..npages, page_to \in 1..npages, x_mm \in XValues,
           up2 \in IF editing.stamp_type = "image"
                   THEN UploadedImages \cup {None} ELSE {None},
           last_tiled \in IF editing.stamp_type = "image"
                          THEN {editing.tiled} ELSE BOOLEAN :
          /\ stamps' = stamps
          /\ heap' = [heap EXCEPT ![ref] =
                        [editing EXCEPT
                           !.page_from = page_from, !.page_to = page_to,
                           !.x_mm = x_mm,
                           !.image_bytes = IF up2 # None THEN up2 ELSE @,
                           !.tiled = last_tiled]]
          /\ selected_stamp_index' = sidx
  /\ UNCHANGED <<delete_pending, pdf_file, pdf_bytes>>

\* --------------------------------------------------- page applicability
\* The overlay builder's filter: s.page_from - 1 <= page_idx0 <= s.page_to - 1.
OverlayRelevant(sp, page_idx0) ==
  sp.page_from - 1 <= page_idx0 /\ page_idx0 <= sp.page_to - 1

\* The positions (1-based, in list order) of the stamps the overlay builder
\* keeps for a page.
relevant(stamp_list, page_idx0) ==
  SelectSeq([k \in 1..Len(stamp_list) |-> k],
            LAMBDA k : OverlayRelevant(stamp_list[k], page_idx0))

\* ------------------------------------------------------ vector compositor
\* A canvas call, tagged with the list position of the stamp it is made for.
Op(name, k) == [op |-> name, stamp |-> k]

\* Python truthiness of image_bytes: None and empty bytes are false.
Truthy(image_bytes) == image_bytes # None /\ image_bytes # ""

\* Image.open / ImageReader can decode the bytes. "jpeg" is what
\* compress_image writes and "raw" an uploaded image file; "corrupt" stands for bytes that are no image, which
\* compress_image hands back as they are and a template can carry.
Decodable(image_bytes) == image_bytes \in {"jpeg", "raw"}

\* The builder's image branch has no try: ImageReader raises on bytes it
\* cannot decode, and the exception leaves build_overlay_pdf_for_page.
VectorRaises(stamp_list, rel) ==
  \E j \in 1..Len(rel) :
    LET sp == stamp_list[rel[j]]
    IN sp.stamp_type = "image" /\ Truthy(sp.image_bytes)
       /\ ~Decodable(sp.image_bytes)

\* The canvas calls of the loop body for one stamp between its saveState and
\* restoreState. The tiled loop is one "tiles" entry: each of its placements
\* is a saveState, translate, rotate, drawString, restoreState of its own.
VectorBody(sp, k) ==
  IF sp.stamp_type = "image" /\ Truthy(sp.image_bytes)
  THEN <<Op("translate", k), Op("rotate", k), Op("translate", k),
         Op("drawImage", k)>>
  ELSE IF sp.stamp_type = "text"
  THEN <<Op("setFillColor", k), Op("setFont", k)>> \o
       (IF sp.tiled
        THEN <<Op("tiles", k)>>
        ELSE <<Op("translate", k), Op("rotate", k), Op("translate", k),
               Op("rect", k), Op("drawString", k)>>)
  ELSE <<>>

VectorStampOps(sp, k) ==
  <<Op("saveState", k)>> \o VectorBody(sp, k) \o <<Op("restoreState", k)>>

\* The loop over relevant, in its order.
RECURSIVE VectorOps(_, _)
VectorOps(stamp_list, rel) ==
  IF rel = <<>> THEN <<>>
  ELSE VectorStampOps(stamp_list[Head(rel)], Head(rel)) \o
       VectorOps(stamp_list, Tail(rel))

\* Before any call of the builder.
NotBuilt ==
  [built |-> FALSE, raised |-> FALSE, is_none |-> TRUE, pagesize |-> <<0, 0>>,
   ops |-> <<>>]

\* The call ended in an exception: nothing is returned.
RaisedOverlay ==
  [built |-> TRUE, raised |-> TRUE, is_none |-> FALSE, pagesize |-> <<0, 0>>,
   ops |-> <<>>]

\* The builder's None result.
NoOverlay ==
  [built |-> TRUE, raised |-> FALSE, is_none |-> TRUE, pagesize |-> <<0, 0>>,
   ops |-> <<>>]

\* An overlay builder that returns a page even when no stamp is relevant.
build_overlay_always(stamp_list, page_idx0, page_w_pt, page_h_pt) ==
  [built |-> TRUE, raised |-> FALSE, is_none |-> FALSE,
   pagesize |-> <<page_w_pt, page_h_pt>>,
   ops |-> VectorOps(stamp_list, relevant(stamp_list, page_idx0))]

\* build_overlay_pdf_for_page: None when no stamp is relevant, else a one-page
\* overlay of the given size with the relevant stamps' canvas calls.
build_overlay_pdf_for_page(stamp_list, page_idx0, page_w_pt, page_h_pt) ==
  LET rel == relevant(stamp_list, page_idx0)
  IN IF rel = <<>> THEN NoOverlay
     ELSE IF VectorRaises(stamp_list, rel) THEN RaisedOverlay
     ELSE [built |-> TRUE, raised |-> FALSE, is_none |-> FALSE,
           pagesize |-> <<page_w_pt, page_h_pt>>,
           ops |-> VectorOps(stamp_list, rel)]

\* ------------------------------------------------------ raster compositor
\* A skip test that takes the page index for a 1-based page number.
PreviewSelectedOneBased(sp, page_idx0) ==
  sp.page_from <= page_idx0 /\ page_idx0 <= sp.page_to

\* The loop's skip test negated: the stamp is drawn on this page.
PreviewSelected(sp, page_idx0) ==
  ~ ~(sp.page_from - 1 <= page_idx0 /\ page_idx0 <= sp.page_to - 1)

\* Something drawn into an image, tagged with the list position of its stamp.
Mark(what, k) == [mark |-> what, stamp |-> k]

\* Image.alpha_composite(a, b): a new image, b over a.
alpha_composite(a, b) == a \o b

\* The loop "for sp in stamps" from the k-th stamp on. images are the Image
\* objects made so far, each the sequence of what was drawn into it; overlay
\* is the object the name overlay is bound to; draw is the object the
\* ImageDraw made before the loop draws into. The result is the image the
\* name overlay is bound to after the loop.
RECURSIVE PreviewLoop(_, _, _, _, _, _)
PreviewLoop(stamp_list, k, page_idx0, images, overlay, draw) ==
  IF k > Len(stamp_list) THEN images[overlay]
  ELSE
    LET sp == stamp_list[k]
    IN IF ~PreviewSelected(sp, page_idx0)
       THEN PreviewLoop(stamp_list, k + 1, page_idx0, images, overlay, draw)
       ELSE IF sp.stamp_type = "image" /\ Truthy(sp.image_bytes)
       THEN \* try: overlay.alpha_composite(img, ...), in place;
            \* except Exception: pass
            PreviewLoop(stamp_list, k + 1, page_idx0,
                        IF Decodable(sp.image_bytes)
                        THEN [images EXCEPT ![overlay] = Append(@, Mark("image", k))]
                        ELSE images,
                        overlay, draw)
       ELSE IF sp.tiled
       THEN \* overlay = Image.alpha_composite(overlay, txt_layer)
            LET txt_layer == <<Mark("tiles", k)>>
            IN PreviewLoop(stamp_list, k + 1, page_idx0,
                           Append(images, alpha_composite(images[overlay], txt_layer)),
                           Len(images) + 1, draw)
       ELSE \* draw.rectangle twice, then
            \* overlay = Image.alpha_composite(overlay, text_layer)
            LET drawn == [images EXCEPT
                            ![draw] = @ \o <<Mark("fill", k), Mark("border", k)>>]
                text_layer == <<Mark("text", k)>>
            IN PreviewLoop(stamp_list, k + 1, page_idx0,
                           Append(drawn, alpha_composite(drawn[overlay], text_layer)),
                           Len(drawn) + 1, draw)

\* The preview column has not called st.slider.
NoSlider == [called |-> FALSE, max_value |-> 0, value |-> 0]

\* Before any call of the raster compositor.
NotDrawn == [done |-> FALSE, page |-> <<>>]

\* draw_preview_overlay_for_page: the page bitmap with the final overlay
\* composited over it. overlay is a new transparent image and draw is bound
\* to it.
draw_preview_overlay_for_page(stamp_list, page_idx0) ==
  [done |-> TRUE,
   page |-> alpha_composite(<<Mark("page", 0)>>,
                            PreviewLoop(stamp_list, 1, page_idx0, << <<>> >>, 1, 1))]

\* ------------------------------------------------------------ tiled grids
\* Lengths in points are kept in hundredths of a point; millimetres, pixels
\* and the loop variables are integers.

\* int(a / b) for b > 0: truncation toward zero.
TruncDiv(a, b) == IF a >= 0 THEN a \div b ELSE -((-a) \div b)

\* mm_to_pt: v_mm * PT_PER_MM with PT_PER_MM = 72 / 25.4, in hundredths.
mm_to_pt(v_mm) == TruncDiv(v_mm * 28346, 100)

\* int(x) of a value in hundredths.
PyInt(c) == TruncDiv(c, 100)

\* range(start, stop, step) for step > 0, as the sequence it iterates.
PyRange(start, stop, step) ==
  LET n == IF stop > start THEN (stop - start + step - 1) \div step ELSE 0
  IN [k \in 1..n |-> start + (k - 1) * step]

\* The bitmap of a page rendered at a scale given in tenths: the renderer
\* rounds the size up to whole pixels.
BitmapSize(extent_pt, scale) == (extent_pt * scale + 999) \div 1000

\* The raster step with a floor of one pixel in place of six.
RasterStepFloorOne(d_mm, page_px, extent_pt) ==
  Max(1, TruncDiv(mm_to_pt(d_mm) * page_px, extent_pt))

\* Raster: dx_px = max(6, int(dx_pt * px_per_pt_x)) with
\* px_per_pt_x = page.width / page_w_pt; the same for y.
RasterStep(d_mm, page_px, extent_pt) ==
  Max(6, TruncDiv(mm_to_pt(d_mm) * page_px, extent_pt))

\* Raster: off_x_px = int(mm_to_pt(sp.x_mm) * px_per_pt_x); the same for y.
RasterOffset(v_mm, page_px, extent_pt) ==
  TruncDiv(mm_to_pt(v_mm) * page_px, extent_pt)

\* Raster: for x in range(-page.width, page.width*2, dx_px): px_ = x + off_x_px;
\* the same for y. Positions are pixels from the bitmap's top-left corner.
RasterAxis(v_mm, d_mm, page_px, extent_pt) ==
  LET grid == PyRange(-page_px, page_px * 2, RasterStep(d_mm, page_px, extent_pt))
  IN [k \in 1..Len(grid) |-> grid[k] + RasterOffset(v_mm, page_px, extent_pt)]

\* int(round(a / b)) for a >= 0, b > 0.
Round(a, b) == (2 * a + b) \div (2 * b)

\* rect_pixels: the box in bitmap pixels, y measured from the top.
rect_pixels(x_pt, y_pt, w_pt, h_pt, w_px, h_px, page_w_pt, page_h_pt) ==
  LET left_px == Round(x_pt * w_px, page_w_pt)
      right_px == Round((x_pt + w_pt) * w_px, page_w_pt)
      top_px == Round((y_pt + h_pt) * h_px, page_h_pt)
      bottom_px == Round(y_pt * h_px, page_h_pt)
  IN [l |-> left_px, t |-> h_px - top_px, r |-> right_px, b |-> h_px - bottom_px]

\* The stamp's box: the default width and height of a new stamp, in mm.
BoxSize == <<50, 30>>

RasterTiles(a) ==
  LET w_px == BitmapSize(a.page_w_pt, a.scale)
      h_px == BitmapSize(a.page_h_pt, a.scale)
  IN [done |-> TRUE, w |-> w_px, h |-> h_px,
      box |-> rect_pixels(mm_to_pt(a.x_mm), mm_to_pt(a.y_mm),
                          mm_to_pt(BoxSize[1]), mm_to_pt(BoxSize[2]),
                          w_px, h_px, a.page_w_pt, a.page_h_pt),
      dx |-> RasterStep(a.tile_dx_mm, w_px, a.page_w_pt),
      dy |-> RasterStep(a.tile_dy_mm, h_px, a.page_h_pt),
      xs |-> RasterAxis(a.x_mm, a.tile_dx_mm, w_px, a.page_w_pt),
      ys |-> RasterAxis(a.y_mm, a.tile_dy_mm, h_px, a.page_h_pt)]

\* Vector: the loop step int(max(6, dx_pt)), in points.
VectorStep(d_mm) == PyInt(Max(600, mm_to_pt(d_mm)))

\* The vector loop over the page alone, without the margin of one page on
\* each side.
VectorAxisPageOnly(v_mm, d_mm, extent_pt) ==
  LET grid == PyRange(0, PyInt(extent_pt), VectorStep(d_mm))
  IN [k \in 1..Len(grid) |-> grid[k] * 100 + mm_to_pt(v_mm)]

\* Vector: for x in range(-int(page_w_pt), int(page_w_pt*2), step):
\* can.translate(x + off_x, ...) with off_x = mm_to_pt(sp.x_mm); the same for
\* y. Positions are hundredths of a point from the page's bottom-left corner.
VectorAxis(v_mm, d_mm, extent_pt) ==
  LET grid == PyRange(-PyInt(extent_pt), PyInt(extent_pt * 2), VectorStep(d_mm))
  IN [k \in 1..Len(grid) |-> grid[k] * 100 + mm_to_pt(v_mm)]

VectorTiles(a) ==
  [done |-> TRUE, w |-> a.page_w_pt, h |-> a.page_h_pt,
   box |-> [l |-> mm_to_pt(a.x_mm), t |-> mm_to_pt(a.y_mm) + mm_to_pt(BoxSize[2]),
            r |-> mm_to_pt(a.x_mm) + mm_to_pt(BoxSize[1]), b |-> mm_to_pt(a.y_mm)],
   dx |-> VectorStep(a.tile_dx_mm) * 100,
   dy |-> VectorStep(a.tile_dy_mm) * 100,
   xs |-> VectorAxis(a.x_mm, a.tile_dx_mm, a.page_w_pt),
   ys |-> VectorAxis(a.y_mm, a.tile_dy_mm, a.page_h_pt)]

NotTiled ==
  [done |-> FALSE, w |-> 0, h |-> 0,
   box |-> [l |-> 0, t |-> 0, r |-> 0, b |-> 0],
   dx |-> 0, dy |-> 0, xs |-> <<>>, ys |-> <<>>]

NoTileArgs ==
  [x_mm |-> 0, y_mm |-> 0, tile_dx_mm |-> 0, tile_dy_mm |-> 0,
   page_w_pt |-> 0, page_h_pt |-> 0, scale |-> 0]

\* The baselines of the box mode's text: for line i of n from the top,
\* ty = start_y + leading * (n - 1 - i), drawn until the first ty < pad.
\* Lengths are in hundredths of a point; the baselines are kept doubled, as
\* start_y halves a difference of such lengths.
BoxTextBaselines(a) ==
  LET pad == mm_to_pt(a.padding_mm)
      h_pt == mm_to_pt(a.h_mm)
      leading == a.font_size_pt * 120
      total_h == leading * a.n
      start_y2 == Max(h_pt - total_h, 2 * pad)
      ty2(k) == start_y2 + 2 * leading * (a.n - k)
      broken == {k \in 1..a.n : ty2(k) < 2 * pad}
      stop == IF broken = {} THEN a.n + 1
              ELSE CHOOSE k \in broken : \A j \in broken : k <= j
  IN [done |-> TRUE, pad |-> pad, h |-> h_pt, n |-> a.n,
      ys |-> [k \in 1..(stop - 1) |-> ty2(k)]]

NoBoxArgs == [h_mm |-> 30, padding_mm |-> 3, font_size_pt |-> 28, n |-> 0]

NoLines == [done |-> FALSE, pad |-> 0, h |-> 0, n |-> 0, ys |-> <<>>]

\* No boxed text is being laid out.
NoLayout ==
  /\ box_args = NoBoxArgs
  /\ box_lines = NoLines

\* No tiled stamp is being composited.
NoTiles ==
  /\ tile_args = NoTileArgs
  /\ raster_grid = NotTiled
  /\ vector_grid = NotTiled

\* ------------------------------------------------------------ permissions
Restrictions ==
  {"print", "modify", "copy", "annotate", "formfill", "accessibility"}

\* The order of the six if-statements.
RestrictionOrder ==
  <<"print", "modify", "copy", "annotate", "formfill", "accessibility">>

\* Masks in which modification reuses the literal of copying.
DenyMaskShared(r) ==
  CASE r = "print" -> 4
    [] r = "modify" -> 32
    [] r = "copy" -> 32
    [] r = "annotate" -> 64
    [] r = "formfill" -> 512
    [] r = "accessibility" -> 1024

\* The literal each restriction clears: 0b100, 0b10000, 0b100000, 0b1000000,
\* 0b1000000000, 0b10000000000.
DenyMask(r) ==
  CASE r = "print" -> 4
    [] r = "modify" -> 16
    [] r = "copy" -> 32
    [] r = "annotate" -> 64
    [] r = "formfill" -> 512
    [] r = "accessibility" -> 1024

\* Python's integers are unbounded; a value up to 0xFFFFFFFF is kept as its
\* two 16-bit halves.
Word(hi, lo) == [hi |-> hi, lo |-> lo]

\* 0xFFFFFFFC
BaselinePermissions == Word(65535, 65532)

BitAt(n, k) == (n \div (2 ^ k)) % 2

\* a & ~m on 16 bits, bit by bit from bit k down.
RECURSIVE AndNot16(_, _, _)
AndNot16(a, m, k) ==
  IF k < 0 THEN 0
  ELSE (IF BitAt(a, k) = 1 /\ BitAt(m, k) = 0 THEN 2 ^ k ELSE 0)
       + AndNot16(a, m, k - 1)

\* permissions &= ~mask, for a mask below 2^16: ~mask keeps every higher bit.
AndNot(p, mask) == Word(p.hi, AndNot16(p.lo, mask, 15))

\* The six conditional clears, in order, from the k-th on.
RECURSIVE ClearDenied(_, _, _)
ClearDenied(p, denied, k) ==
  IF k > Len(RestrictionOrder) THEN p
  ELSE ClearDenied(IF RestrictionOrder[k] \in denied
                   THEN AndNot(p, DenyMask(RestrictionOrder[k])) ELSE p,
                   denied, k + 1)

\* if permissions > 0x7FFFFFFF: permissions -= 0x100000000
ToSigned32(p) ==
  IF p.hi > 32767 THEN (p.hi - 65536) * 65536 + p.lo
  ELSE p.hi * 65536 + p.lo

\* The permissions_flag handed to writer.encrypt.
PermissionsFlag(denied) == ToSigned32(ClearDenied(BaselinePermissions, denied, 1))

\* ------------------------------------------------------------------ apply
Passwords == {"", "a", "b"}

\* Security checks that forget to compare the two passwords.
SecurityInputsNonEmpty(user_pw, owner_pw) == user_pw # "" /\ owner_pw # ""

\* The two checks before the spinner: both passwords non-empty, and different.
SecurityInputsValid(user_pw, owner_pw) ==
  /\ user_pw # ""
  /\ owner_pw # ""
  /\ user_pw # owner_pw

NotEncrypted ==
  [called |-> FALSE, user_password |-> "", owner_password |-> "",
   permissions_flag |-> 0]

\* The run before the script reaches anything: no Apply pressed.
IdleRun ==
  /\ pc = "idle"
  /\ page_size = A4
  /\ i = 0
  /\ reader = NoPdf
  /\ builds = 0
  /\ writer = <<>>
  /\ encrypted = NotEncrypted
  /\ out_file = <<>>
  /\ download = None
  /\ overlay_reader = NotBuilt
  /\ preview_page_index = 0
  /\ preview = NotDrawn
  /\ slider = NoSlider
  /\ tpl = NoTemplate
  /\ loaded = NotLoaded
  /\ NoTiles
  /\ NoLayout

\* Session defaults of the security expander; the six checkboxes are ticked.
DefaultSecurity ==
  /\ sec_enabled = FALSE
  /\ sec_user_pw = ""
  /\ sec_owner_pw = ""
  /\ restrictions = Restrictions

\* Sidebar of the run: the default page size, then the probe of the
\* uploaded file: ss.pdf_bytes and the first page's mediabox.
RunSidebar ==
  /\ pc = "sidebar"
  /\ pdf_bytes' = IF pdf_file # NoPdf THEN pdf_file ELSE pdf_bytes
  /\ page_size' = IF pdf_file # NoPdf THEN pdf_file[1] ELSE A4
  /\ pc' = "preview"
  /\ UNCHANGED <<overlay_reader, stamps, heap, selected_stamp_index, delete_pending, pdf_file,
                 last_action, securityVars, tileVars, layoutVars, templateVars, previewVars, i, reader, builds, writer,
                 encrypted, out_file, download>>

\* The preview column: render_pdf_pages_to_images returns the first page's
\* size, which is assigned to the same (page_w_pt, page_h_pt).
RunPreview ==
  /\ pc = "preview"
  /\ page_size' = IF pdf_bytes # NoPdf THEN pdf_bytes[1] ELSE page_size
  /\ pc' = "apply"
  /\ UNCHANGED <<overlay_reader, editorVars, securityVars, tileVars, layoutVars, templateVars, previewVars, i, reader, builds, writer,
                 encrypted, out_file, download>>

\* if apply_now: the input checks, the security checks (st.stop()), then the
\* reader and the writer.
ApplyValidate ==
  /\ pc = "apply"
  /\ IF pdf_bytes = NoPdf \/ stamps = <<>>
     THEN pc' = "error" /\ UNCHANGED reader
     ELSE IF sec_enabled /\ ~SecurityInputsValid(sec_user_pw, sec_owner_pw)
     THEN pc' = "stopped" /\ UNCHANGED reader
     ELSE pc' = "loop" /\ reader' = pdf_bytes
  /\ UNCHANGED <<overlay_reader, editorVars, securityVars, tileVars, layoutVars, templateVars, previewVars, page_size, i, builds, writer,
                 encrypted, out_file, download>>

\* One iteration of "for i, page in enumerate(reader.pages)". The apply block
\* has no try: an exception of the builder ends the script run.
ApplyPage ==
  /\ pc = "loop"
  /\ i < Len(reader)
  /\ overlay_reader' =
       build_overlay_pdf_for_page(StampList, i, page_size[1], page_size[2])
  /\ IF overlay_reader'.raised
     THEN /\ pc' = "exception"
          /\ UNCHANGED <<writer, builds, i>>
     ELSE /\ writer' = Append(writer,
                          [src |-> i,
                           size |-> reader[i + 1],
                           merged |-> IF overlay_reader'.is_none THEN <<>>
                                      ELSE <<overlay_reader'.pagesize>>])
          /\ builds' = builds + 1
          /\ i' = i + 1
          /\ UNCHANGED pc
  /\ UNCHANGED <<editorVars, securityVars, tileVars, layoutVars, templateVars, previewVars, page_size, reader, encrypted,
                 out_file, download>>

\* After the loop: the optional writer.encrypt.
ApplyEncrypt ==
  /\ pc = "loop"
  /\ i = Len(reader)
  /\ encrypted' = IF sec_enabled
                  THEN [called |-> TRUE, user_password |-> sec_user_pw,
                        owner_password |-> sec_owner_pw,
                        permissions_flag |-> PermissionsFlag(restrictions)]
                  ELSE encrypted
  /\ pc' = "write"
  /\ UNCHANGED <<overlay_reader, editorVars, securityVars, tileVars, layoutVars, templateVars, previewVars, page_size, i, reader, builds,
                 writer, out_file, download>>

\* writer.write(tmp) and the download button.
ApplyWrite ==
  /\ pc = "write"
  /\ out_file' = writer
  /\ download' = IF sec_enabled THEN "stamped_secure.pdf"
                 ELSE "stamped_output.pdf"
  /\ pc' = "done"
  /\ UNCHANGED <<overlay_reader, editorVars, securityVars, tileVars, layoutVars, templateVars, previewVars, page_size, i, reader, builds,
                 writer, encrypted>>

NextApply ==
  \/ RunSidebar
  \/ RunPreview
  \/ ApplyValidate
  \/ ApplyPage
  \/ ApplyEncrypt
  \/ ApplyWrite

\* The sessions in which Apply is pressed. Page ranges are whatever the editor
\* and templates leave in the list (any pair of page numbers); documents have
\* pages of one or of mixed sizes; the uploader may have been emptied after
\* the upload.
RangeStamps ==
  {Stamp("text", 50, pf, pt, None, FALSE) : pf \in 1..MaxPages, pt \in 1..MaxPages}

KindStamps ==
  {Stamp("text", 50, 1, MaxPages, None, FALSE),
   Stamp("text", 50, 1, MaxPages, None, TRUE),
   Stamp("image", 50, 1, MaxPages, "jpeg", FALSE),
   Stamp("image", 50, 1, MaxPages, "corrupt", FALSE),
   Stamp("image", 50, 1, MaxPages, None, FALSE)}

MixedDocs == SeqsUpTo({A4, A5}, MaxPages) \ {<<>>}

Session(file, bytes, list, sec, user_pw, owner_pw, denied) ==
  [pdf_file |-> file, pdf_bytes |-> bytes, stamp_list |-> list,
   sec_enabled |-> sec, sec_user_pw |-> user_pw, sec_owner_pw |-> owner_pw,
   restrictions |-> denied]

\* Every page range on documents of every length.
RangeSessions ==
  {Session(UniformDoc(n), UniformDoc(n), list, FALSE, "", "", Restrictions) :
     n \in 1..MaxPages, list \in SeqsUpTo(RangeStamps, MaxStamps)}

\* Every kind of stamp on documents with pages of mixed sizes, the uploader
\* still holding the file or emptied.
SizeSessions ==
  {Session(file, doc, list, FALSE, "", "", Restrictions) :
     file \in {NoPdf} \cup MixedDocs, doc \in {NoPdf} \cup MixedDocs,
     list \in SeqsUpTo(KindStamps, 1)}

\* Every state of the security inputs.
SecuritySessions ==
  {Session(doc, doc, list, sec, u, o, Restrictions) :
     doc \in {NoPdf, UniformDoc(1)},
     list \in {<<>>, <<Stamp("text", 50, 1, 1, None, FALSE)>>},
     sec \in BOOLEAN, u \in Passwords, o \in Passwords}

\* Every choice of the six restriction checkboxes.
PermissionSessions ==
  {Session(UniformDoc(1), UniformDoc(1),
           <<Stamp("text", 50, 1, 1, None, FALSE)>>, TRUE, "a", "b", denied) :
     denied \in SUBSET Restrictions}

\* A stamp for pages 2 to 3 on a five-page document.
ExampleSessions ==
  {Session(UniformDoc(5), UniformDoc(5),
           <<Stamp("text", 50, 2, 3, None, FALSE)>>, FALSE, "", "",
           Restrictions)}

ApplySessions ==
  {ses \in RangeSessions \cup SizeSessions \cup SecuritySessions
             \cup PermissionSessions \cup ExampleSessions :
     ses.pdf_file # NoPdf => ses.pdf_file = ses.pdf_bytes}

InitApply ==
  \E ses \in ApplySessions :
    /\ heap = ses.stamp_list
    /\ stamps = [k \in 1..Len(ses.stamp_list) |-> k]
    /\ selected_stamp_index = IF ses.stamp_list = <<>> THEN NoIndex
                              ELSE Len(ses.stamp_list) - 1
    /\ delete_pending = NoIndex
    /\ pdf_file = ses.pdf_file
    /\ pdf_bytes = ses.pdf_bytes
    /\ last_action = "Apply"
    /\ sec_enabled = ses.sec_enabled
    /\ sec_user_pw = ses.sec_user_pw
    /\ sec_owner_pw = ses.sec_owner_pw
    /\ restrictions = ses.restrictions
    /\ pc = "sidebar"
    /\ page_size = A4
    /\ i = 0
    /\ reader = NoPdf
    /\ builds = 0
    /\ writer = <<>>
    /\ encrypted = NotEncrypted
    /\ out_file = <<>>
    /\ download = None
    /\ overlay_reader = NotBuilt
    /\ preview_page_index = 0
    /\ preview = NotDrawn
    /\ slider = NoSlider
    /\ tpl = NoTemplate
    /\ loaded = NotLoaded
    /\ NoTiles
    /\ NoLayout

SpecApply == InitApply /\ [][NextApply]_vars

\* ------------------------------------------------------ the editor session
Init ==
  /\ stamps = <<>>
  /\ heap = <<>>
  /\ selected_stamp_index = NoIndex
  /\ delete_pending = NoIndex
  /\ pdf_file = NoPdf
  /\ pdf_bytes = NoPdf
  /\ last_action = "start"
  /\ DefaultSecurity
  /\ IdleRun

Next ==
  \/ UploadPdf
  \/ AddSignature
  \/ AddStamp
  \/ ApplyTemplate
  \/ Select
  \/ MoveUp
  \/ MoveDown
  \/ Duplicate
  \/ DeleteRequest
  \/ ConfirmDelete
  \/ CancelDelete
  \/ EditSubmit

Spec == Init /\ [][Next]_vars

\* The editor without reordering, deletion and templates: upload, add,
\* select, duplicate and edit.
NextEdit ==
  \/ UploadPdf
  \/ AddStamp
  \/ Select
  \/ Duplicate
  \/ EditSubmit

SpecEdit == Init /\ [][NextEdit]_vars

\* The stamp manager alone: the sidebar's three ways to add stamps and the
\* manager's selectbox and buttons, with no document uploaded and no submit
\* of the editor form.
NextManage ==
  \/ AddSignature
  \/ AddStamp
  \/ ApplyTemplate
  \/ Select
  \/ MoveUp
  \/ MoveDown
  \/ Duplicate
  \/ DeleteRequest
  \/ ConfirmDelete
  \/ CancelDelete

SpecManage == Init /\ [][NextManage]_vars

\* ------------------------------------------------------- the compositors
\* One call of each compositor for the same page and the same stamp list.
DrawPreview ==
  /\ pc = "render"
  /\ ~preview.done
  /\ preview' = draw_preview_overlay_for_page(StampList, preview_page_index)
  /\ UNCHANGED <<editorVars, securityVars, tileVars, layoutVars, templateVars, runVars, overlay_reader,
                 preview_page_index, slider>>

BuildOverlay ==
  /\ pc = "render"
  /\ ~overlay_reader.built
  /\ overlay_reader' =
       build_overlay_pdf_for_page(StampList, i, page_size[1], page_size[2])
  /\ UNCHANGED <<editorVars, securityVars, tileVars, layoutVars, templateVars, runVars, previewVars>>

NextRender ==
  \/ DrawPreview
  \/ BuildOverlay

\* Page ranges, valid or not, one past MaxPages included.
RenderRangeStamps ==
  {Stamp("text", 50, pf, pt, None, FALSE) :
     pf \in 1..(MaxPages + 1), pt \in 1..(MaxPages + 1)}

\* Every kind of stamp, on the first page or the first two.
RenderKindStamps ==
  {Stamp("text", 50, 1, pt, None, tl) : pt \in 1..2, tl \in BOOLEAN}
  \cup {Stamp("image", 50, 1, pt, img, FALSE) : pt \in 1..2, img \in {"jpeg", None}}

RenderLists ==
  SeqsUpTo(RenderRangeStamps, MaxStamps) \cup SeqsUpTo(RenderKindStamps, MaxStamps)

InitRender ==
  \E list \in RenderLists, idx \in 0..(MaxPages + 1) :
    /\ heap = list
    /\ stamps = [k \in 1..Len(list) |-> k]
    /\ selected_stamp_index = IF list = <<>> THEN NoIndex ELSE Len(list) - 1
    /\ delete_pending = NoIndex
    /\ pdf_file = NoPdf
    /\ pdf_bytes = NoPdf
    /\ last_action = "Render"
    /\ DefaultSecurity
    /\ pc = "render"
    /\ page_size = A4
    /\ i = idx
    /\ reader = NoPdf
    /\ builds = 0
    /\ writer = <<>>
    /\ encrypted = NotEncrypted
    /\ out_file = <<>>
    /\ download = None
    /\ overlay_reader = NotBuilt
    /\ preview_page_index = idx
    /\ preview = NotDrawn
    /\ slider = NoSlider
    /\ tpl = NoTemplate
    /\ loaded = NotLoaded
    /\ NoTiles
    /\ NoLayout

SpecRender == InitRender /\ [][NextRender]_vars

\* Lists in which an image stamp may hold bytes that are no image.
AssetStamps ==
  {Stamp("text", 50, 1, pt, None, tl) : pt \in 1..2, tl \in BOOLEAN}
  \cup {Stamp("image", 50, 1, pt, img, FALSE) : pt \in 1..2, img \in {"jpeg", "corrupt"}}

AssetLists == SeqsUpTo(AssetStamps, MaxStamps)

InitAsset ==
  \E list \in AssetLists, idx \in 0..1 :
    /\ heap = list
    /\ stamps = [k \in 1..Len(list) |-> k]
    /\ selected_stamp_index = IF list = <<>> THEN NoIndex ELSE Len(list) - 1
    /\ delete_pending = NoIndex
    /\ pdf_file = NoPdf
    /\ pdf_bytes = NoPdf
    /\ last_action = "Render"
    /\ DefaultSecurity
    /\ pc = "render"
    /\ page_size = A4
    /\ i = idx
    /\ reader = NoPdf
    /\ builds = 0
    /\ writer = <<>>
    /\ encrypted = NotEncrypted
    /\ out_file = <<>>
    /\ download = None
    /\ overlay_reader = NotBuilt
    /\ preview_page_index = idx
    /\ preview = NotDrawn
    /\ slider = NoSlider
    /\ tpl = NoTemplate
    /\ loaded = NotLoaded
    /\ NoTiles
    /\ NoLayout

SpecAsset == InitAsset /\ [][NextRender]_vars

\* --------------------------------------------------- template round trip
\* "Save Template": tpl = stamps_to_template_dict(ss.stamps).
SaveTemplate ==
  /\ pc = "template"
  /\ ~tpl.saved
  /\ tpl' = stamps_to_template_dict(StampList)
  /\ UNCHANGED <<editorVars, securityVars, tileVars, layoutVars, runVars, overlay_reader,
                 previewVars, loaded>>

\* The dict goes through json.dumps, the download, the upload and json.loads.
JsonRoundTrip ==
  /\ pc = "template"
  /\ tpl.saved
  /\ ~loaded.done
  /\ tpl' = json_roundtrip(tpl)
  /\ UNCHANGED <<editorVars, securityVars, tileVars, layoutVars, runVars, overlay_reader,
                 previewVars, loaded>>

\* template_dict_to_stamps on the dict, straight from the save or from JSON.
LoadTemplate ==
  /\ pc = "template"
  /\ tpl.saved
  /\ ~tpl.raised
  /\ ~loaded.done
  /\ loaded' = [done |-> TRUE, stamps |-> template_dict_to_stamps(tpl.stamps)]
  /\ UNCHANGED <<editorVars, securityVars, tileVars, layoutVars, runVars, overlay_reader,
                 previewVars, tpl>>

NextTemplate ==
  \/ SaveTemplate
  \/ JsonRoundTrip
  \/ LoadTemplate

\* Stamps of every kind, image bytes of every length.
RoundTripStamps ==
  {Stamp("text", 50, 1, 1, None, tl) : tl \in BOOLEAN}
  \cup {Stamp("image", 50, 1, 2, img, FALSE) :
          img \in {None, "", "b15", "b16", "jpeg"}}

InitTemplate ==
  \E list \in SeqsUpTo(RoundTripStamps, MaxStamps) :
    /\ heap = list
    /\ stamps = [k \in 1..Len(list) |-> k]
    /\ selected_stamp_index = IF list = <<>> THEN NoIndex ELSE Len(list) - 1
    /\ delete_pending = NoIndex
    /\ pdf_file = NoPdf
    /\ pdf_bytes = NoPdf
    /\ last_action = "Template"
    /\ DefaultSecurity
    /\ pc = "template"
    /\ page_size = A4
    /\ i = 0
    /\ reader = NoPdf
    /\ builds = 0
    /\ writer = <<>>
    /\ encrypted = NotEncrypted
    /\ out_file = <<>>
    /\ download = None
    /\ overlay_reader = NotBuilt
    /\ preview_page_index = 0
    /\ preview = NotDrawn
    /\ slider = NoSlider
    /\ tpl = NoTemplate
    /\ loaded = NotLoaded
    /\ NoTiles
    /\ NoLayout

SpecTemplate == InitTemplate /\ [][NextTemplate]_vars

\* ------------------------------------------------- tiled grid, one stamp
\* The tiled branch of draw_preview_overlay_for_page for one stamp.
TileRaster ==
  /\ pc = "tile"
  /\ ~raster_grid.done
  /\ raster_grid' = RasterTiles(tile_args)
  /\ UNCHANGED <<editorVars, securityVars, runVars, overlay_reader,
                 previewVars, templateVars, layoutVars, tile_args, vector_grid>>

\* The tiled branch of build_overlay_pdf_for_page for the same stamp and page.
TileVector ==
  /\ pc = "tile"
  /\ ~vector_grid.done
  /\ vector_grid' = VectorTiles(tile_args)
  /\ UNCHANGED <<editorVars, securityVars, runVars, overlay_reader,
                 previewVars, templateVars, layoutVars, tile_args, raster_grid>>

NextTile ==
  \/ TileRaster
  \/ TileVector

\* Page sizes in hundredths of a point: A4 as reportlab and most producers
\* write it, and US Letter.
TilePages == {<<59528, 84189>>, <<61200, 79200>>}

\* The preview scale slider, in tenths.
TileScales == {10, 18}

\* Tile spacings in mm: the editor's 10 to 500, and what a template may carry.
TileSpacings == {10, 30, 120, 500}

TemplateSpacings == {-5, 0, 1}

\* Stamp origins in mm, within the editor's 0 to 5000.
TileOrigins == {0, 50, 500}

InitTile ==
  \E size \in TilePages, sc \in TileScales,
     dx \in TileSpacings \cup TemplateSpacings,
     dy \in TileSpacings \cup TemplateSpacings,
     ox \in TileOrigins, oy \in TileOrigins :
    /\ stamps = <<>>
    /\ heap = <<>>
    /\ selected_stamp_index = NoIndex
    /\ delete_pending = NoIndex
    /\ pdf_file = NoPdf
    /\ pdf_bytes = NoPdf
    /\ last_action = "Tile"
    /\ DefaultSecurity
    /\ pc = "tile"
    /\ page_size = A4
    /\ i = 0
    /\ reader = NoPdf
    /\ builds = 0
    /\ writer = <<>>
    /\ encrypted = NotEncrypted
    /\ out_file = <<>>
    /\ download = None
    /\ overlay_reader = NotBuilt
    /\ preview_page_index = 0
    /\ preview = NotDrawn
    /\ slider = NoSlider
    /\ tpl = NoTemplate
    /\ loaded = NotLoaded
    /\ tile_args = [x_mm |-> ox, y_mm |-> oy, tile_dx_mm |-> dx,
                    tile_dy_mm |-> dy, page_w_pt |-> size[1],
                    page_h_pt |-> size[2], scale |-> sc]
    /\ raster_grid = NotTiled
    /\ vector_grid = NotTiled
    /\ NoLayout

SpecTile == InitTile /\ [][NextTile]_vars

\* ----------------------------------------------------- preview navigation
PREVIEW_LIMIT == 10

\* render_pdf_pages_to_images: the bitmaps of the first max_pages pages.
render_pdf_pages_to_images(doc, max_pages) ==
  SubSeq(doc, 1, Min(Len(doc), max_pages))

\* The preview column from the slider to the index the slider or the
\* single-page branch assigns, for ss.preview_page_index = idx0 and the
\* slider's widget value moved (0: the user did not move it). The slider has
\* no key and is created with value = idx0 + 1: when that exceeds
\* total_preview_pages the run ends in an exception, in st.slider or, with the
\* unclamped index left in place, in base_imgs[idx]; the index is unchanged.
PreviewColumn(doc, idx0, moved) ==
  LET total_preview_pages == Len(render_pdf_pages_to_images(doc, PREVIEW_LIMIT))
      call == [called |-> TRUE, max_value |-> total_preview_pages,
               value |-> idx0 + 1]
  IN IF total_preview_pages > 1
     THEN IF idx0 + 1 > total_preview_pages
          THEN [index |-> idx0, slider |-> call, raised |-> TRUE]
          ELSE [index |-> (IF moved # 0 THEN moved ELSE idx0 + 1) - 1,
                slider |-> call, raised |-> FALSE]
     ELSE [index |-> 0, slider |-> NoSlider, raised |-> FALSE]

\* idx = ss.preview_page_index and the call of the raster compositor.
PreviewFinish(r) ==
  /\ preview_page_index' = r.index
  /\ slider' = r.slider
  /\ pc' = IF r.raised THEN "exception" ELSE "drawn"
  /\ preview' = IF r.raised THEN NotDrawn
                ELSE draw_preview_overlay_for_page(StampList, r.index)

PreviewFrame ==
  UNCHANGED <<stamps, heap, selected_stamp_index, delete_pending,
              securityVars, page_size, i, reader, builds, writer, encrypted,
              out_file, download, overlay_reader, templateVars, tileVars,
              layoutVars>>

\* A PDF is uploaded or replaced; the run leaves ss.preview_page_index as
\* it was.
PreviewUpload ==
  /\ \E doc \in PreviewDocs :
       /\ pdf_file' = doc
       /\ pdf_bytes' = doc
       /\ PreviewFinish(PreviewColumn(doc, preview_page_index, 0))
  /\ last_action' = "UploadPdf"
  /\ PreviewFrame

\* "Prev": above 0 the index is decremented and the script reruns; at 0 the
\* run goes on. The button is created before the slider.
PreviewPrev ==
  /\ pdf_bytes # NoPdf
  /\ pc \in {"drawn", "exception"}
  /\ PreviewFinish(PreviewColumn(pdf_bytes, Max(preview_page_index - 1, 0), 0))
  /\ last_action' = "Prev"
  /\ PreviewFrame /\ UNCHANGED <<pdf_file, pdf_bytes>>

\* "Next": the slider first, then below total_preview_pages - 1 the index is
\* incremented and the script reruns. The button exists after a run that
\* reached it.
PreviewNext ==
  /\ pdf_bytes # NoPdf
  /\ pc = "drawn"
  /\ LET r == PreviewColumn(pdf_bytes, preview_page_index, 0)
         total_preview_pages ==
           Len(render_pdf_pages_to_images(pdf_bytes, PREVIEW_LIMIT))
     IN IF ~r.raised /\ r.index < total_preview_pages - 1
        THEN PreviewFinish(PreviewColumn(pdf_bytes, r.index + 1, 0))
        ELSE PreviewFinish(r)
  /\ last_action' = "Next"
  /\ PreviewFrame /\ UNCHANGED <<pdf_file, pdf_bytes>>

\* The user moves the slider of the last run to v.
PreviewSlide ==
  /\ pdf_bytes # NoPdf
  /\ pc = "drawn"
  /\ slider.called
  /\ \E v \in 1..slider.max_value :
       PreviewFinish(PreviewColumn(pdf_bytes, preview_page_index, v))
  /\ last_action' = "Slider"
  /\ PreviewFrame /\ UNCHANGED <<pdf_file, pdf_bytes>>

NextPreview == PreviewUpload \/ PreviewPrev \/ PreviewNext \/ PreviewSlide

InitPreview ==
  /\ stamps = <<>>
  /\ heap = <<>>
  /\ selected_stamp_index = NoIndex
  /\ delete_pending = NoIndex
  /\ pdf_file = NoPdf
  /\ pdf_bytes = NoPdf
  /\ last_action = "Init"
  /\ DefaultSecurity
  /\ IdleRun

SpecPreview == InitPreview /\ [][NextPreview]_vars

\* ----------------------------------------------------- boxed text layout
\* The text of one boxed stamp, laid out by build_overlay_pdf_for_page.
BoxText ==
  /\ pc = "box"
  /\ ~box_lines.done
  /\ box_lines' = BoxTextBaselines(box_args)
  /\ UNCHANGED <<editorVars, securityVars, runVars, overlay_reader,
                 previewVars, templateVars, tileVars, box_args>>

NextLayout == BoxText

\* Heights, paddings and font sizes of the editor's number inputs (5..5000
\* mm, 0..50 mm, 8..200 pt), and the line counts simpleSplit may return.
BoxHeights == {5, 30, 60}

BoxPaddings == {0, 3, 20, 50}

FontSizes == {8, 10, 28, 200}

MaxLines == 4

InitLayout ==
  \E h \in BoxHeights, pd \in BoxPaddings, fs \in FontSizes, n \in 0..MaxLines :
    /\ stamps = <<>>
    /\ heap = <<>>
    /\ selected_stamp_index = NoIndex
    /\ delete_pending = NoIndex
    /\ pdf_file = NoPdf
    /\ pdf_bytes = NoPdf
    /\ last_action = "Box"
    /\ DefaultSecurity
    /\ pc = "box"
    /\ page_size = A4
    /\ i = 0
    /\ reader = NoPdf
    /\ builds = 0
    /\ writer = <<>>
    /\ encrypted = NotEncrypted
    /\ out_file = <<>>
    /\ download = None
    /\ overlay_reader = NotBuilt
    /\ preview_page_index = 0
    /\ preview = NotDrawn
    /\ slider = NoSlider
    /\ tpl = NoTemplate
    /\ loaded = NotLoaded
    /\ NoTiles
    /\ box_args = [h_mm |-> h, padding_mm |-> pd, font_size_pt |-> fs, n |-> n]
    /\ box_lines = NoLines

SpecLayout == InitLayout /\ [][NextLayout]_vars

\* ------------------------------------------------------------ page ranges
\* 1 <= page_from <= page_to <= page_count for a stamp and a page count.
ValidRange(sp, n) ==
  /\ 1 <= sp.page_from
  /\ sp.page_from <= sp.page_to
  /\ sp.page_to <= n

\* C6: with a document loaded, every stamp of the session's list satisfies
\* 1 <= page_from <= page_to <= page_count, after any sequence of editor
\* operations.
C6_PageRangeInvariant ==
  pdf_file # NoPdf =>
    \A k \in 1..Len(stamps) : ValidRange(heap[stamps[k]], num_pages)

\* ------------------------------------------------------------- duplicate
\* A Duplicate run inserts, right after the selected stamp, a distinct object
\* equal to it in every field and leaves the other entries as they were.
DuplicateStep ==
  last_action' = "Duplicate" =>
    LET selected == selected_stamp_index
    IN /\ StampList' = ListInsert(StampList, selected + 1, StampAt(selected))
       /\ \A k \in 1..Len(stamps') :
            k # selected + 2 => stamps'[k] # stamps'[selected + 2]
       /\ selected_stamp_index' = selected + 1

\* An editor submit changes no field of any stamp but the selected one.
EditStep ==
  last_action' = "EditSubmit" =>
    /\ Len(stamps') = Len(stamps)
    /\ \A j \in 0..(Len(stamps) - 1) :
         j # selected_stamp_index => StampAt(j)' = StampAt(j)

Applicable(sp, idx) == sp.page_from - 1 <= idx /\ idx <= sp.page_to - 1

SomeApplicable(idx) == \E k \in 1..Len(stamps) : Applicable(heap[stamps[k]], idx)

\* C2: over an n-page source and any stamp list, the pages appended to the
\* output are the source pages in source order, each exactly once; page i has
\* exactly one overlay merged when some stamp is applicable to i and none
\* otherwise; one overlay build is made per page; the written document has
\* exactly n pages.
C2_MergePerPage ==
  /\ Len(writer) = i
  /\ builds = i
  /\ \A k \in 1..Len(writer) :
       /\ writer[k].src = k - 1
       /\ writer[k].size = reader[k]
       /\ Len(writer[k].merged) = IF SomeApplicable(k - 1) THEN 1 ELSE 0
  /\ pc \in {"write", "done"} => Len(writer) = Len(pdf_bytes)
  /\ pc = "done" => out_file = writer

\* Pages 2 to 3 of five: pages 1, 4, 5 pass through, pages 2, 3 get one merge.
C2_Witness ==
  /\ pc = "done"
  /\ Len(out_file) = 5
  /\ [k \in 1..5 |-> Len(out_file[k].merged)] = <<0, 1, 1, 0, 0>>

BadSecurityInputs ==
  sec_enabled /\ (sec_user_pw = "" \/ sec_owner_pw = "" \/ sec_user_pw = sec_owner_pw)

\* C4: with security enabled and an empty user or owner password, or two
\* identical passwords, Apply never opens the source document, never builds or
\* merges an overlay, never encrypts or writes, and offers no download; and
\* encrypt is only ever called with security enabled and two distinct
\* non-empty passwords, which are the ones it is given.
C4_SecurityAbort ==
  /\ BadSecurityInputs =>
       /\ pc \notin {"loop", "write", "done"}
       /\ reader = NoPdf
       /\ builds = 0
       /\ writer = <<>>
       /\ ~encrypted.called
       /\ out_file = <<>>
       /\ download = None
  /\ encrypted.called =>
       /\ sec_enabled
       /\ sec_user_pw # "" /\ sec_owner_pw # "" /\ sec_user_pw # sec_owner_pw
       /\ encrypted.user_password = sec_user_pw
       /\ encrypted.owner_password = sec_owner_pw

\* Apply stopped on identical passwords with a document and a stamp present.
C4_Witness ==
  /\ pc = "stopped"
  /\ pdf_bytes # NoPdf
  /\ stamps # <<>>
  /\ sec_enabled
  /\ sec_user_pw # ""
  /\ sec_user_pw = sec_owner_pw

\* The bits set in the 32-bit two's-complement form of a signed flag.
FlagBits(flag) ==
  LET low == IF flag < 0 THEN (flag + 1073741824) + 1073741824 ELSE flag
  IN {k \in 0..30 : BitAt(low, k) = 1} \cup (IF flag < 0 THEN {31} ELSE {})

\* The bits of the all-granted baseline 0xFFFFFFFC.
BaselineBits == 2..31

\* The baseline bits that the flag for a set of restrictions has cleared.
ClearedBy(denied) == BaselineBits \ FlagBits(PermissionsFlag(denied))

\* C5: the flag passed to the encoder is the signed 32-bit value of the
\* baseline with one bit cleared per ticked restriction and nothing else:
\* each restriction alone clears exactly one baseline bit, print alone clears
\* the print bit (value 4), different restrictions clear different bits, the
\* flag for a set clears exactly the bits of its members and sets no bit
\* outside the baseline, and the flag lies in [-2^31, 2^31 - 1]; bit 31 is
\* never cleared, so the flag is always the wrapped, negative value.
C5_PermissionFlag ==
  encrypted.called =>
    LET flag == encrypted.permissions_flag
    IN /\ flag = PermissionsFlag(restrictions)
       /\ \A r \in Restrictions : Cardinality(ClearedBy({r})) = 1
       /\ ClearedBy({"print"}) = {2}
       /\ \A r1, r2 \in Restrictions : r1 # r2 => ClearedBy({r1}) # ClearedBy({r2})
       /\ FlagBits(flag) = BaselineBits \ UNION {ClearedBy({r}) : r \in restrictions}
       /\ Cardinality(BaselineBits \ FlagBits(flag)) = Cardinality(restrictions)
       /\ flag >= (-1073741824) - 1073741824
       /\ flag <= 1073741823 + 1073741824
       /\ flag < 0

\* Encrypted with printing and copying denied and the rest granted.
C5_Witness ==
  /\ pc = "done"
  /\ encrypted.called
  /\ restrictions = {"print", "copy"}
  /\ encrypted.permissions_flag = -40

\* An image stamp without image data.
InvalidImage(sp) == sp.stamp_type = "image" /\ ~Truthy(sp.image_bytes)

\* An image stamp without image data, or a page range that is not
\* 1 <= page_from <= page_to <= n.
InvalidStamp(sp, n) ==
  \/ ~ValidRange(sp, n)
  \/ InvalidImage(sp)

\* C7: when Apply is pressed with a stamp whose page range is invalid for the
\* document, or with an image stamp without image data, no overlay is built or
\* merged and no output document or download is produced.
C7_InvalidStampAborts ==
  (pdf_bytes # NoPdf /\ \E k \in 1..Len(stamps) :
      InvalidStamp(heap[stamps[k]], Len(pdf_bytes)))
  => /\ builds = 0
     /\ writer = <<>>
     /\ out_file = <<>>
     /\ download = None

\* C10: the overlay merged onto a page has that page's own width and height.
C10_OverlaySizedToPage ==
  \A k \in 1..Len(writer) :
    \A m \in 1..Len(writer[k].merged) : writer[k].merged[m] = writer[k].size

\* ------------------------------------------------------------ compositors
\* The list positions of the stamps applicable to page idx, in list order.
ApplicableSeq(idx) ==
  SelectSeq([k \in 1..Len(stamps) |-> k],
            LAMBDA k : Applicable(heap[stamps[k]], idx))

\* The stamps that left something in the preview, and the stamps the overlay
\* holds canvas calls for.
PreviewStamps == {preview.page[j].stamp : j \in 2..Len(preview.page)}

OverlayStamps == {overlay_reader.ops[j].stamp : j \in 1..Len(overlay_reader.ops)}

\* C1: a stamp is applicable to the 0-based page index idx exactly when
\* page_from - 1 <= idx <= page_to - 1; the raster preview and the vector
\* overlay builder both select exactly the applicable stamps, hence the same
\* set for the same page and list; a stamp for pages 2 to 4 is selected for
\* the indices 1, 2, 3 and for no other.
C1_SameSelection ==
  /\ preview.done => PreviewStamps = Range(ApplicableSeq(preview_page_index))
  /\ overlay_reader.built => OverlayStamps = Range(ApplicableSeq(i))
  /\ (preview.done /\ overlay_reader.built /\ preview_page_index = i)
       => PreviewStamps = OverlayStamps
  /\ \A k \in 1..Len(stamps) :
       (heap[stamps[k]].page_from = 2 /\ heap[stamps[k]].page_to = 4) =>
         /\ preview.done => (k \in PreviewStamps <=> preview_page_index \in {1, 2, 3})
         /\ overlay_reader.built => (k \in OverlayStamps <=> i \in {1, 2, 3})

\* Both compositors have selected the one stamp for pages 2 to 4 on index 3.
C1_Witness ==
  /\ preview.done
  /\ overlay_reader.built
  /\ Len(stamps) = 1
  /\ heap[stamps[1]].page_from = 2
  /\ heap[stamps[1]].page_to = 4
  /\ i = 3
  /\ PreviewStamps = {1}
  /\ OverlayStamps = {1}

IsDrawing(op) == op.op \notin {"saveState", "restoreState"}

\* A sequence without its immediate repetitions.
RECURSIVE Runs(_)
Runs(s) ==
  IF Len(s) <= 1 THEN s
  ELSE IF s[1] = s[2] THEN Runs(Tail(s))
  ELSE <<s[1]>> \o Runs(Tail(s))

\* The stamps the overlay holds drawing operations for, in emission order.
EmittedFor(ops) ==
  LET drawing == SelectSeq(ops, IsDrawing)
  IN Runs([j \in 1..Len(drawing) |-> drawing[j].stamp])

\* The calls made for stamp k are one block that opens with its saveState and
\* closes with its restoreState.
Wrapped(ops, k) ==
  LET at == {j \in 1..Len(ops) : ops[j].stamp = k}
      lo == CHOOSE j \in at : \A m \in at : j <= m
      hi == CHOOSE j \in at : \A m \in at : j >= m
  IN /\ at = lo..hi
     /\ ops[lo].op = "saveState"
     /\ ops[hi].op = "restoreState"
     /\ \A j \in (lo + 1)..(hi - 1) : IsDrawing(ops[j])

\* C3: the builder returns None exactly when no stamp is applicable to the
\* page; otherwise the stamps it emits drawing operations for are the
\* applicable stamps in list order, each inside its own saveState and
\* restoreState.
C3_OverlayGroups ==
  overlay_reader.built =>
    /\ overlay_reader.is_none <=> ApplicableSeq(i) = <<>>
    /\ ~overlay_reader.is_none =>
         /\ EmittedFor(overlay_reader.ops) = ApplicableSeq(i)
         /\ \A k \in OverlayStamps : Wrapped(overlay_reader.ops, k)

\* What a stamp draws: an image, tiled text sprites, or a filled and bordered
\* rectangle with the text.
ExpectedMarks(sp, k) ==
  IF sp.stamp_type = "image" THEN <<Mark("image", k)>>
  ELSE IF sp.tiled THEN <<Mark("tiles", k)>>
  ELSE <<Mark("fill", k), Mark("border", k), Mark("text", k)>>

RECURSIVE ExpectedLayer(_, _)
ExpectedLayer(stamp_list, rel) ==
  IF rel = <<>> THEN <<>>
  ELSE ExpectedMarks(stamp_list[Head(rel)], Head(rel)) \o
       ExpectedLayer(stamp_list, Tail(rel))

\* C8: in the preview of a page, for stamps that have their data, the layer
\* composited over the page bitmap holds the whole drawing of every
\* applicable stamp, in list order.
C8_PreviewLayer ==
  (preview.done /\ \A k \in 1..Len(stamps) : ~InvalidImage(heap[stamps[k]]))
  => preview.page = <<Mark("page", 0)>> \o
                    ExpectedLayer(StampList, ApplicableSeq(preview_page_index))

\* ---------------------------------------------------------- asset failures
\* An image stamp whose bytes cannot be decoded.
FailingAsset(sp) ==
  sp.stamp_type = "image" /\ Truthy(sp.image_bytes) /\ ~Decodable(sp.image_bytes)

\* The stamps the overlay holds drawing operations for.
OverlayDrawn ==
  {overlay_reader.ops[j].stamp :
     j \in {m \in 1..Len(overlay_reader.ops) : IsDrawing(overlay_reader.ops[m])}}

\* The applicable stamps whose asset does not fail.
SoundApplicable(idx) ==
  {k \in Range(ApplicableSeq(idx)) : ~FailingAsset(heap[stamps[k]])}

\* C11: a stamp whose image cannot be decoded is isolated in both paths: the
\* preview is returned with every other applicable stamp drawn and the failing
\* one skipped; the overlay builder returns, and the overlay holds the drawing
\* of every other applicable stamp.
C11_AssetFailureIsolated ==
  /\ preview.done => PreviewStamps = SoundApplicable(preview_page_index)
  /\ overlay_reader.built =>
       /\ ~overlay_reader.raised
       /\ OverlayDrawn = SoundApplicable(i)

\* ------------------------------------------------------------- templates
\* C12: loading what was saved, directly or through JSON, gives a list equal
\* to the saved one field by field, image bytes included, for image bytes of
\* any length, and the JSON encoding of the saved dict never fails.
C12_TemplateRoundTrip ==
  /\ ~tpl.raised
  /\ loaded.done => loaded.stamps = StampList

\* ------------------------------------------------------------ tiled grids
\* On one axis the placements are an arithmetic progression of the pitch, so
\* every pitch-sized cell that meets the page [0, extent) holds a placement
\* exactly when the first placement is not inside the page and the last one is
\* less than one pitch before its end.
CoversAxis(coords, pitch, extent) ==
  /\ coords # <<>>
  /\ coords[1] <= 0
  /\ coords[Len(coords)] + pitch >= extent

\* The origin and the spacing are values the editor's inputs allow.
EditorTileArgs ==
  /\ tile_args.x_mm \in 0..5000 /\ tile_args.y_mm \in 0..5000
  /\ tile_args.tile_dx_mm \in 10..500 /\ tile_args.tile_dy_mm \in 10..500

\* C13: for every origin (0 to 5000 mm), spacing (10 to 500 mm) and page size
\* the placements of a tiled stamp cover the whole page in both compositors.
C13_TilesCoverPage ==
  EditorTileArgs =>
  /\ raster_grid.done =>
       /\ CoversAxis(raster_grid.xs, raster_grid.dx, raster_grid.w)
       /\ CoversAxis(raster_grid.ys, raster_grid.dy, raster_grid.h)
  /\ vector_grid.done =>
       /\ CoversAxis(vector_grid.xs, vector_grid.dx, vector_grid.w)
       /\ CoversAxis(vector_grid.ys, vector_grid.dy, vector_grid.h)

Abs(n) == IF n < 0 THEN -n ELSE n

\* A vector position (hundredths of a point) times the px-per-pt factor
\* page_px / extent_pt is within one pixel of a raster position.
WithinOnePixel(vec, ras, page_px, extent_pt) ==
  Abs(vec * page_px - ras * extent_pt) < extent_pt

\* C14: for a tiled stamp on one page both compositors make the same number of
\* placements on each axis, and the k-th vector position scaled to pixels is
\* the k-th raster position up to less than one pixel.
C14_SameGrid ==
  (EditorTileArgs /\ raster_grid.done /\ vector_grid.done) =>
    /\ Len(vector_grid.xs) = Len(raster_grid.xs)
    /\ Len(vector_grid.ys) = Len(raster_grid.ys)
    /\ \A k \in 1..Len(raster_grid.xs) :
         WithinOnePixel(vector_grid.xs[k], raster_grid.xs[k],
                        raster_grid.w, vector_grid.w)
    /\ \A k \in 1..Len(raster_grid.ys) :
         WithinOnePixel(vector_grid.ys[k], raster_grid.ys[k],
                        raster_grid.h, vector_grid.h)

\* The flip of a page-space y (hundredths of a point from the bottom) into
\* bitmap pixels from the top: bitmap_height - round(y_pt * px_per_pt_y).
Flip(y_pt, h_px, page_h_pt) == h_px - Round(y_pt * h_px, page_h_pt)

\* C15: every raster y comes from the same flip: the box's top and bottom
\* are the flips of y + h and y, and the tiled grid's phase offset from the
\* stamp's y origin is flipped too, so that its rows lie round(off_y) pixels
\* higher than the rows of the grid without offset, as the vector rows lie
\* off_y points higher on the page.
C15_SameFlip ==
  (EditorTileArgs /\ raster_grid.done) =>
    LET y_pt == mm_to_pt(tile_args.y_mm)
        h_pt == mm_to_pt(BoxSize[2])
        off_px == Round(y_pt * raster_grid.h, tile_args.page_h_pt)
    IN /\ raster_grid.box.t = Flip(y_pt + h_pt, raster_grid.h, tile_args.page_h_pt)
       /\ raster_grid.box.b = Flip(y_pt, raster_grid.h, tile_args.page_h_pt)
       /\ Abs(raster_grid.ys[1] - ((-raster_grid.h) - off_px)) <= 1

\* C16: every line the vector box layout draws has its baseline inside the
\* padded content box, pad <= y <= h_pt - pad, and the drawn lines are
\* exactly the lines whose computed baseline does not fall above the top
\* padding boundary (baselines are doubled, see BoxTextBaselines).
C16_BaselineInBox ==
  box_lines.done =>
    LET leading == box_args.font_size_pt * 120
        start2 == Max(box_lines.h - leading * box_args.n, 2 * box_lines.pad)
        computed(k) == start2 + 2 * leading * (box_args.n - k)
        inside(y2) == /\ 2 * box_lines.pad <= y2
                      /\ y2 <= 2 * (box_lines.h - box_lines.pad)
    IN /\ \A k \in 1..Len(box_lines.ys) : inside(box_lines.ys[k])
       /\ Len(box_lines.ys) =
            Cardinality({k \in 1..box_args.n :
                           computed(k) <= 2 * (box_lines.h - box_lines.pad)})

\* C17: after any sequence of uploads, Prev, Next and slider moves, a drawn
\* preview has 0 <= idx < min(page_count, 10), and the slider is created
\* with an initial value inside 1..total_preview_pages.
C17_PreviewIndexInRange ==
  /\ preview.done =>
       /\ 0 <= preview_page_index
       /\ preview_page_index < Min(Len(pdf_bytes), 10)
  /\ slider.called =>
       /\ 1 <= slider.value
       /\ slider.value <= slider.max_value

\* ceil(a / b) for a >= 0, b > 0.
CeilDiv(a, b) == (a + b - 1) \div b

\* coords is one placement for each grid coordinate start, start + pitch, ...
\* below start + span, each at its grid coordinate + offset.
IsGrid(coords, start, span, pitch, offset) ==
  /\ Len(coords) = CeilDiv(span, pitch)
  /\ \A k \in 1..Len(coords) : coords[k] = start + (k - 1) * pitch + offset

\* The placements on one axis outnumber extent / spacing.
Outnumbers(coords, d_mm, extent_pt) ==
  d_mm > 0 => Len(coords) * mm_to_pt(d_mm) > extent_pt

\* Both tiled loops have run.
TilesDone == raster_grid.done /\ vector_grid.done

\* The raster compositor's placements are the grid from -extent to
\* 2 * extent of the bitmap, in pixels.
RasterGrid ==
  /\ IsGrid(raster_grid.xs, -raster_grid.w, 3 * raster_grid.w, raster_grid.dx,
            RasterOffset(tile_args.x_mm, raster_grid.w, tile_args.page_w_pt))
  /\ IsGrid(raster_grid.ys, -raster_grid.h, 3 * raster_grid.h, raster_grid.dy,
            RasterOffset(tile_args.y_mm, raster_grid.h, tile_args.page_h_pt))
  /\ Outnumbers(raster_grid.xs, tile_args.tile_dx_mm, tile_args.page_w_pt)
  /\ Outnumbers(raster_grid.ys, tile_args.tile_dy_mm, tile_args.page_h_pt)

WholeFrom(extent_pt) == PyInt(extent_pt) * 100
WholeSpan(extent_pt) == (PyInt(extent_pt) + PyInt(extent_pt * 2)) * 100

C19_PitchFloor ==
  /\ raster_grid.done =>
       /\ raster_grid.dx >= 6 /\ raster_grid.dy >= 6
       /\ Len(raster_grid.xs) <= CeilDiv(3 * raster_grid.w, 6)
       /\ Len(raster_grid.ys) <= CeilDiv(3 * raster_grid.h, 6)
  /\ vector_grid.done =>
       /\ vector_grid.dx >= 600 /\ vector_grid.dy >= 600
       /\ Len(vector_grid.xs) <= CeilDiv(3 * vector_grid.w, 600)
       /\ Len(vector_grid.ys) <= CeilDiv(3 * vector_grid.h, 600)

\* A template's spacing of 0 mm: both loops step by the floor.
C19_Witness ==
  /\ TilesDone
  /\ tile_args.tile_dx_mm = 0
  /\ raster_grid.dx = 6 /\ vector_grid.dx = 600
  /\ Len(raster_grid.xs) > 100 /\ Len(vector_grid.xs) > 100

\* ---------------------------------------------------------- the selection
\* The stored selection indexes the list.
ValidSelection ==
  stamps # <<>> =>
    /\ 0 <= selected_stamp_index
    /\ selected_stamp_index < Len(stamps)

\* The list with the entries at the 0-based positions a and a + 1 exchanged.
SwapAdjacent(list, a) ==
  [k \in 1..Len(list) |->
     IF k = a + 1 THEN list[a + 2] ELSE IF k = a + 2 THEN list[a + 1]
     ELSE list[k]]

\* Move up exchanges the selected stamp with the one before it, move down
\* with the one after it; the selection ends on the stamp that was selected.
MoveStep ==
  /\ last_action' = "MoveUp" =>
       /\ StampList' = SwapAdjacent(StampList, selected_stamp_index - 1)
       /\ selected_stamp_index' = selected_stamp_index - 1
       /\ StampAt(selected_stamp_index)' = StampAt(selected_stamp_index)
  /\ last_action' = "MoveDown" =>
       /\ StampList' = SwapAdjacent(StampList, selected_stamp_index)
       /\ selected_stamp_index' = selected_stamp_index + 1
       /\ StampAt(selected_stamp_index)' = StampAt(selected_stamp_index)

\* A confirmed delete that empties the list sets the selection to None.
LastDeleteStep ==
  (last_action' = "ConfirmDelete" /\ stamps # <<>> /\ stamps' = <<>>) =>
    selected_stamp_index' = NoIndex

\* C20: after any sequence of stamp-manager operations the selection is a
\* valid index whenever the list is non-empty; move up and move down swap the
\* two adjacent entries only and the selection follows the moved stamp; and
\* deleting the last stamp sets the selection to None.
C20_SelectionValid ==
  /\ []ValidSelection
  /\ [][MoveStep /\ LastDeleteStep]_vars

\* A move up of the second of two different stamps has just run.
C20_Witness ==
  /\ last_action = "MoveUp"
  /\ Len(stamps) = 2
  /\ selected_stamp_index = 0
  /\ StampAt(0) # StampAt(1)

\* ------------------------------------------------------ the pending delete
\* The pending delete index indexes the list.
PendingValid ==
  (stamps # <<>> /\ delete_pending # NoIndex) =>
    /\ 0 <= delete_pending
    /\ delete_pending < Len(stamps)

\* Between the request and its confirmation or cancellation, a run leaves
\* the pending index on the stamp it designated before the run.
PendingKept ==
  (/\ delete_pending # NoIndex
   /\ delete_pending < Len(stamps)
   /\ last_action' \notin {"DeleteRequest", "ConfirmDelete", "CancelDelete"}) =>
    /\ delete_pending' = delete_pending
    /\ delete_pending < Len(stamps')
    /\ StampAt(delete_pending)' = StampAt(delete_pending)

\* "Yes, Delete" does not fail and removes the entry at the pending index,
\* the other entries keeping their order.
ConfirmStep ==
  (last_action' = "ConfirmDelete" /\ delete_pending # NoIndex) =>
    /\ delete_pending < Len(stamps)
    /\ StampList' = ListPop(StampList, delete_pending)
    /\ delete_pending' = NoIndex

\* C21: whatever runs between a delete request and its confirmation, the
\* pending delete index stays a valid index of the list and stays on the stamp
\* that was selected when Delete was pressed, and the confirmed delete removes
\* exactly that stamp, leaves the others in their order and never fails.
C21_DeleteTarget ==
  /\ []PendingValid
  /\ [][PendingKept /\ ConfirmStep]_vars

\* ------------------------------------------------------ rendering branches
\* The branch the raster compositor took for the stamp at list position k,
\* read off what it left in the preview.
RasterBranch(k) ==
  LET marks == {preview.page[j].mark :
                  j \in {m \in 1..Len(preview.page) : preview.page[m].stamp = k}}
  IN IF "image" \in marks THEN "image"
     ELSE IF "tiles" \in marks THEN "tiled text"
     ELSE IF "text" \in marks THEN "boxed text"
     ELSE "nothing"

\* The branch the vector compositor took for it, read off its canvas calls.
VectorBranch(k) ==
  LET calls == {overlay_reader.ops[j].op :
                  j \in {m \in 1..Len(overlay_reader.ops) :
                           overlay_reader.ops[m].stamp = k}}
  IN IF "drawImage" \in calls THEN "image"
     ELSE IF "tiles" \in calls THEN "tiled text"
     ELSE IF "drawString" \in calls THEN "boxed text"
     ELSE "nothing"

\* C22: for the same list and page both compositors take the same branch
\* (image, tiled text, boxed text or nothing) for every stamp; an image stamp
\* without image bytes draws nothing in the preview, as it draws nothing in
\* the overlay.
C22_SameBranch ==
  (preview.done /\ overlay_reader.built /\ ~overlay_reader.raised
   /\ preview_page_index = i) =>
    \A k \in 1..Len(stamps) :
      /\ RasterBranch(k) = VectorBranch(k)
      /\ (StampAt(k - 1).stamp_type = "image"
          /\ ~Truthy(StampAt(k - 1).image_bytes)) => RasterBranch(k) = "nothing"

====
